---- MODULE Spec2Model ----
(***************************************************************************)
(* Model of the MJ Figurines API (src/main.py, src/schemas.py).            *)
(*                                                                         *)
(* State: the process-wide database handle (present or None), the two      *)
(* collections "figurine" and "order" of the document store (kept in       *)
(* insertion order, which is the _id order), the last request payload and  *)
(* the outcome of the last operation.                                      *)
(*                                                                         *)
(* Money is counted in thousandths of a dollar (mills), so that            *)
(* round(x, 2) is a real operation: 49.99 is 49990, 4.0 is 4000.           *)
(* Strings the code inspects character by character (custom_name,          *)
(* customer_email, shipping_address) are sequences of one-character        *)
(* strings; strings it only passes through are TLA+ strings.               *)
(* Of a Figurine document only name and price_usd are modelled; the other  *)
(* fields are copied through unchanged by the code.                        *)
(***************************************************************************)
EXTENDS Integers, Sequences, FiniteSets, TLC

VARIABLES dbAvail, figurine, order, req, resp, seeded, pc, existing

vars == <<dbAvail, figurine, order, req, resp, seeded, pc, existing>>

(***************************************************************************)
(* Bounds of the model.                                                    *)
(***************************************************************************)
MaxOrders == 1
NumSeeders == 2

(***************************************************************************)
(* Program constants.                                                      *)
(***************************************************************************)
MaxCustomNameLen == 24
MinQuantity == 1
MaxQuantity == 10
MinAddressLen == 8
DefaultPriceUsd == 49990
EngravingFeeUsd == 4000
ShippingUsd == 6990
StatusOk == 200
StatusBadRequest == 400
StatusServerError == 500

FigurineName == "Michael Jackson Collectible Figurine"
DemoOrderId == "demo-order"
NameDetail == "Custom name must be 1-24 characters."
QuantityDetail == "Quantity must be between 1 and 10."
ServerErrorDetail == "Internal Server Error"
None == "None"

(***************************************************************************)
(* Strings as sequences of characters.                                     *)
(***************************************************************************)
RECURSIVE Rep(_, _)
Rep(c, n) == IF n = 0 THEN <<>> ELSE <<c>> \o Rep(c, n - 1)

IsSpace(c) == c = " "

RECURSIVE LStrip(_)
LStrip(s) == IF s = <<>> THEN s
             ELSE IF IsSpace(Head(s)) THEN LStrip(Tail(s)) ELSE s

RECURSIVE RStrip(_)
RStrip(s) == IF s = <<>> THEN s
             ELSE IF IsSpace(s[Len(s)]) THEN RStrip(SubSeq(s, 1, Len(s) - 1)) ELSE s

\* a plausible slip: the raw name is used, not the trimmed one
StripNot(s) == s

\* str.strip()
Strip(s) == RStrip(LStrip(s))

\* round(x, 2) on an amount in mills; an exact tie goes to the even cent
Round2(m) ==
    LET r == m % 10
        lo == m - r
    IN  IF r < 5 THEN lo
        ELSE IF r > 5 THEN lo + 10
        ELSE IF (lo \div 10) % 2 = 0 THEN lo ELSE lo + 10

\* EmailStr: one "@", a non-empty local part, a domain with an inner period
EmailValid(e) ==
    LET ats == {i \in 1..Len(e) : e[i] = "@"}
    IN  /\ Cardinality(ats) = 1
        /\ LET at == CHOOSE i \in ats : TRUE
               dom == SubSeq(e, at + 1, Len(e))
           IN  /\ at > 1
               /\ Len(dom) >= 3
               /\ dom[1] # "."
               /\ dom[Len(dom)] # "."
               /\ \E i \in 2..(Len(dom) - 1) : dom[i] = "."
               /\ \A i \in 1..(Len(dom) - 1) : ~(dom[i] = "." /\ dom[i + 1] = ".")

(***************************************************************************)
(* Documents of the store.                                                 *)
(***************************************************************************)
SeedProduct == [name |-> FigurineName, price_usd |-> DefaultPriceUsd]

OtherProduct == [name |-> "Other Figurine", price_usd |-> 19992]

CheapProduct == [name |-> FigurineName, price_usd |-> 19992]

\* contents of the figurine collection before the program starts
InitialStores ==
    { <<>>, <<SeedProduct>>, <<CheapProduct>>, <<OtherProduct>>,
      <<OtherProduct, SeedProduct>>, <<SeedProduct, CheapProduct>> }

\* find_one({"name": name}): the option of the first document with that name
find_one_by_name_miss(coll, name) == <<>>

find_one_by_name(coll, name) ==
    LET hits == {i \in 1..Len(coll) : coll[i].name = name}
    IN  IF hits = {} THEN <<>>
        ELSE <<coll[CHOOSE i \in hits : \A j \in hits : i <= j]>>

\* find_one({}, sort=[("_id", 1)]) if db is not None else None
find_first(coll) == IF dbAvail /\ coll # <<>> THEN <<coll[1]>> ELSE <<>>

\* str(doc["_id"]): documents are numbered in insertion order
DocId(prefix, n) == prefix \o ToString(n)

\* create_document(collection, data): the collection after the insert
create_document(coll, doc) == Append(coll, doc)

\* the identifier create_document returns for the document it inserted
inserted_id(coll) == DocId("order-", Len(coll))

(***************************************************************************)
(* Order intake and pricing.                                               *)
(***************************************************************************)
\* a plausible slip: the lower bound tested against 0
QuantityBelowZero(q) == q < 0 \/ q > MaxQuantity

\* payload.quantity < 1 or payload.quantity > 10
QuantityOutOfRange(q) == q < MinQuantity \/ q > MaxQuantity

\* len(stripped) == 0 or len(stripped) > 24
NameOutOfRange(stripped) == Len(stripped) = 0 \/ Len(stripped) > MaxCustomNameLen

\* a plausible slip: a missing product priced at zero
unit_price_zero(product_doc) ==
    IF product_doc # <<>> THEN product_doc[1].price_usd ELSE 0

\* float(product_doc.get("price_usd", 49.99)) if product_doc else 49.99
unit_price(product_doc) ==
    IF product_doc # <<>> THEN product_doc[1].price_usd ELSE DefaultPriceUsd

\* a plausible slip: the engraving fee never charged
engraving_fee_none(stripped) == 0

\* 4.0 if payload.custom_name.strip() else 0.0
engraving_fee(stripped) == IF stripped # <<>> THEN EngravingFeeUsd ELSE 0

\* a plausible slip: the shipping charge left out of the sum
total_no_shipping(price, quantity, fee) == Round2(price * quantity + fee)

\* round(unit_price * quantity + engraving_fee + shipping, 2)
total(price, quantity, fee) == Round2(price * quantity + fee + ShippingUsd)

\* a plausible slip: customer_email declared str instead of EmailStr
OrderSchemaNoEmail(o) ==
    /\ Len(o.custom_name) >= 1
    /\ Len(o.custom_name) <= MaxCustomNameLen
    /\ o.quantity >= MinQuantity
    /\ o.quantity <= MaxQuantity
    /\ Len(o.shipping_address) >= MinAddressLen
    /\ o.unit_price_usd >= 0
    /\ o.total_usd >= 0

\* the field constraints of the Order schema, checked when Order(...) is built
OrderSchemaOK(o) ==
    /\ Len(o.custom_name) >= 1
    /\ Len(o.custom_name) <= MaxCustomNameLen
    /\ o.quantity >= MinQuantity
    /\ o.quantity <= MaxQuantity
    /\ EmailValid(o.customer_email)
    /\ Len(o.shipping_address) >= MinAddressLen
    /\ o.unit_price_usd >= 0
    /\ o.total_usd >= 0

NoProduct == [name |-> "", price_usd |-> 0]

Response(op, status, detail, order_id, total_usd, product) ==
    [op |-> op, status |-> status, detail |-> detail, order_id |-> order_id,
     total_usd |-> total_usd, product |-> product]

\* raise HTTPException(status_code=..., detail=...), or an unhandled exception
Rejected(status, detail) ==
    Response("create_order", status, detail, "", 0, NoProduct)

\* Order(product_id=..., custom_name=payload.custom_name.strip(), ...)
OrderOf(payload, product_doc) ==
    LET stripped == Strip(payload.custom_name)
        price == unit_price(product_doc)
    IN  [product_id |-> IF product_doc # <<>> THEN DocId("figurine-", 1) ELSE None,
         custom_name |-> stripped,
         quantity |-> payload.quantity,
         customer_name |-> payload.customer_name,
         customer_email |-> payload.customer_email,
         shipping_address |-> payload.shipping_address,
         unit_price_usd |-> price,
         total_usd |-> total(price, payload.quantity, engraving_fee(stripped)),
         notes |-> payload.notes]

(***************************************************************************)
(* Request payloads (OrderIn).                                             *)
(***************************************************************************)
\* 24 characters with a space inside
LongName == <<"x", " ">> \o Rep("x", MaxCustomNameLen - 2)

CustomNames ==
    { <<>>, <<" ">>, <<" ", "x", " ">>,
      Rep("x", MaxCustomNameLen),
      <<" ">> \o LongName \o <<" ">>,
      Rep("x", MaxCustomNameLen + 1) }

Quantities == {0, 1, 10, 11}

Emails == { <<"a", "@", "b", ".", "c">>, <<"a", "b", ".", "c">> }

Addresses == { Rep("x", MinAddressLen - 1), Rep("x", MinAddressLen) }

Payloads ==
    [custom_name : CustomNames, quantity : Quantities, customer_name : {"Ann"},
     customer_email : Emails, shipping_address : Addresses, notes : {None}]

NoPayload ==
    [custom_name |-> <<>>, quantity |-> 0, customer_name |-> "",
     customer_email |-> <<>>, shipping_address |-> <<>>, notes |-> None]

NoResponse == Response("none", 0, "", "", 0, NoProduct)

Seeders == 1..NumSeeders

(***************************************************************************)
(* Initial states: the handle is present or None for the whole run, and    *)
(* the store may already hold product documents.                           *)
(***************************************************************************)
Init ==
    /\ dbAvail \in BOOLEAN
    /\ figurine \in InitialStores
    /\ dbAvail = FALSE => figurine = <<>>
    /\ order = <<>>
    /\ req = NoPayload
    /\ resp = NoResponse
    /\ seeded = FALSE
    /\ pc = [s \in Seeders |-> "done"]
    /\ existing = [s \in Seeders |-> FALSE]

\* a plausible slip: the fallback product is written to the store
GetProductPersist ==
    LET doc == find_first(figurine)
    IN  /\ resp' = Response("get_product", StatusOk, "", "", 0,
                            IF doc = <<>> THEN SeedProduct ELSE doc[1])
        /\ figurine' = IF doc = <<>> THEN create_document(figurine, SeedProduct)
                       ELSE figurine
        /\ req' = NoPayload
        /\ UNCHANGED <<dbAvail, order, seeded, pc, existing>>

\* GET /api/product
GetProduct ==
    LET doc == find_first(figurine)
    IN  /\ resp' = Response("get_product", StatusOk, "", "", 0,
                            IF doc = <<>> THEN SeedProduct ELSE doc[1])
        /\ req' = NoPayload
        /\ UNCHANGED <<dbAvail, figurine, order, seeded, pc, existing>>

\* what a run of the startup hook did (it answers no request)
Started(what) == Response("startup", 0, what, "", 0, NoProduct)

\* the startup hook seed_figurine_product, run to completion
Startup ==
    /\ IF ~dbAvail
       THEN /\ resp' = Started("no store")
            /\ UNCHANGED <<figurine, seeded>>
       ELSE IF find_one_by_name(figurine, FigurineName) # <<>>
            THEN /\ resp' = Started("found")
                 /\ UNCHANGED <<figurine, seeded>>
            ELSE /\ resp' = Started("inserted")
                 /\ figurine' = create_document(figurine, SeedProduct)
                 /\ seeded' = TRUE
    /\ req' = NoPayload
    /\ UNCHANGED <<dbAvail, order, pc, existing>>

\* POST /api/order
CreateOrder(payload) ==
    LET stripped == Strip(payload.custom_name)
        product_doc == find_first(figurine)
        o == OrderOf(payload, product_doc)
    IN  /\ req' = payload
        /\ IF NameOutOfRange(stripped)
           THEN /\ resp' = Rejected(StatusBadRequest, NameDetail)
                /\ order' = order
           ELSE IF QuantityOutOfRange(payload.quantity)
           THEN /\ resp' = Rejected(StatusBadRequest, QuantityDetail)
                /\ order' = order
           ELSE IF ~OrderSchemaOK(o)
           THEN /\ resp' = Rejected(StatusServerError, ServerErrorDetail)
                /\ order' = order
           ELSE IF dbAvail
           THEN /\ Len(order) < MaxOrders
                /\ order' = create_document(order, o)
                /\ resp' = Response("create_order", StatusOk, "",
                                    inserted_id(order'), o.total_usd, NoProduct)
           ELSE /\ resp' = Response("create_order", StatusOk, "",
                                    DemoOrderId, o.total_usd, NoProduct)
                /\ order' = order
        /\ UNCHANGED <<dbAvail, figurine, seeded, pc, existing>>

Next ==
    \/ Startup
    \/ GetProduct
    \/ \E payload \in Payloads : CreateOrder(payload)

Spec == Init /\ [][Next]_vars

(***************************************************************************)
(* Several server processes starting against the same empty store: the    *)
(* existence check and the insert of the startup hook are separate round   *)
(* trips to the store, and requests are served meanwhile.                  *)
(***************************************************************************)
InitConc ==
    /\ dbAvail \in BOOLEAN
    /\ figurine = <<>>
    /\ order = <<>>
    /\ req = NoPayload
    /\ resp = NoResponse
    /\ seeded = FALSE
    /\ pc = [s \in Seeders |-> "start"]
    /\ existing = [s \in Seeders |-> FALSE]

\* if db is None: return; existing = db["figurine"].find_one({"name": ...})
SeedCheck(s) ==
    /\ pc[s] = "start"
    /\ IF ~dbAvail
       THEN /\ pc' = [pc EXCEPT ![s] = "done"]
            /\ UNCHANGED existing
       ELSE /\ existing' = [existing EXCEPT
                                ![s] = find_one_by_name(figurine, FigurineName) # <<>>]
            /\ pc' = [pc EXCEPT ![s] = "checked"]
    /\ UNCHANGED <<dbAvail, figurine, order, req, resp, seeded>>

\* if not existing: create_document("figurine", product)
SeedInsert(s) ==
    /\ pc[s] = "checked"
    /\ IF existing[s]
       THEN UNCHANGED <<figurine, seeded>>
       ELSE /\ figurine' = create_document(figurine, SeedProduct)
            /\ seeded' = TRUE
    /\ pc' = [pc EXCEPT ![s] = "done"]
    /\ UNCHANGED <<dbAvail, order, req, resp, existing>>

NextConc ==
    \/ \E s \in Seeders : SeedCheck(s)
    \/ \E s \in Seeders : SeedInsert(s)
    \/ GetProduct
    \/ \E payload \in Payloads : CreateOrder(payload)

SpecConc == InitConc /\ [][NextConc]_vars

(***************************************************************************)
(* Vocabulary of the properties.                                           *)
(***************************************************************************)
\* the part of s between its first and its last non-space character
Trimmed(s) ==
    LET ns == {i \in 1..Len(s) : s[i] # " "}
    IN  IF ns = {} THEN <<>>
        ELSE SubSeq(s, CHOOSE i \in ns : \A j \in ns : i <= j,
                       CHOOSE i \in ns : \A j \in ns : i >= j)

NameRuleOK(p) == Len(Trimmed(p.custom_name)) \in 1..MaxCustomNameLen

QuantityRuleOK(p) == p.quantity \in MinQuantity..MaxQuantity

EmailRuleOK(p) == EmailValid(p.customer_email)

AddressRuleOK(p) == Len(p.shipping_address) >= MinAddressLen

\* the last operation was a POST /api/order, answering the payload req
Ordered == resp.op = "create_order"

Accepted == Ordered /\ resp.status = StatusOk

\* the unit price a request reads in the current store
PriceRead == IF dbAvail /\ figurine # <<>> THEN figurine[1].price_usd ELSE DefaultPriceUsd

MJCount(coll) == Cardinality({i \in 1..Len(coll) : coll[i].name = FigurineName})

\* C1: an accepted order's total_usd is the unit price read for the request
\* times the quantity, plus the 4.00 engraving fee and 6.99 shipping, rounded
\* to 2 decimals; for a price in whole cents that is the exact sum.
C1_TotalOfAcceptedOrder ==
    Accepted =>
        /\ resp.total_usd = Round2(PriceRead * req.quantity + EngravingFeeUsd + ShippingUsd)
        /\ PriceRead % 10 = 0 =>
              resp.total_usd = PriceRead * req.quantity + EngravingFeeUsd + ShippingUsd

\* an order of one figurine priced 19.992 was accepted: 30.982 rounds to 30.98
C1_Witness ==
    /\ Accepted
    /\ req.quantity = 1
    /\ PriceRead = 19992
    /\ resp.total_usd = 30980

\* C2: a POST /api/order that breaks any of the four validation rules ends
\* with a 400-class status and a reason, with or without the store.
C2_ViolationGets400 ==
    (Ordered /\ ~(NameRuleOK(req) /\ QuantityRuleOK(req) /\ EmailRuleOK(req)
                  /\ AddressRuleOK(req)))
        => (resp.status \in 400..499 /\ resp.detail # "")

\* C3: without a store a valid order succeeds with the id "demo-order" and
\* the total at the default price 49.99, and nothing is inserted.
C3_NoStoreFallback ==
    (Ordered /\ ~dbAvail /\ NameRuleOK(req) /\ QuantityRuleOK(req) /\ EmailRuleOK(req)
       /\ AddressRuleOK(req))
        => /\ resp.status = StatusOk
           /\ resp.order_id = "demo-order"
           /\ resp.total_usd = 49990 * req.quantity + 4000 + 6990
           /\ order = <<>>

\* ten figurines were ordered without a store
C3_Witness ==
    /\ Accepted
    /\ ~dbAvail
    /\ req.quantity = 10
    /\ resp.order_id = "demo-order"
    /\ resp.total_usd = 510890

\* C4: GET /api/product answers the fixed default product when the store is
\* unavailable or holds no product, and no GET /api/product step changes the
\* store.
C4_GetProductDefaultNoWrite ==
    /\ [](resp.op = "get_product" /\ (~dbAvail \/ figurine = <<>>)
            => resp.product = [name |-> "Michael Jackson Collectible Figurine",
                               price_usd |-> 49990])
    /\ [][resp'.op = "get_product" => figurine' = figurine /\ order' = order]_vars

\* the product was read from an available, empty store
C4_Witness ==
    /\ resp.op = "get_product"
    /\ dbAvail
    /\ figurine = <<>>
    /\ resp.product.price_usd = 49990

\* C5: a startup run that finds a record with the fixed name inserts
\* nothing, and no step takes the number of records with the fixed name
\* above one unless they were there before.
C5_SeedIdempotent ==
    [][/\ (resp'.op = "startup" /\ MJCount(figurine) >= 1) => figurine' = figurine
       /\ MJCount(figurine') <= (IF MJCount(figurine) = 0 THEN 1 ELSE MJCount(figurine))]_vars

\* a startup run seeded the store and a later one found the record
C5_Witness ==
    /\ seeded
    /\ resp.op = "startup"
    /\ resp.detail = "found"
    /\ MJCount(figurine) = 1

\* C6: with the other fields valid an order is accepted exactly when the
\* trimmed custom name has 1..24 characters, and the name is stored trimmed.
C6_NameRule ==
    (Ordered /\ QuantityRuleOK(req) /\ EmailRuleOK(req) /\ AddressRuleOK(req))
        => /\ resp.status = StatusOk <=> NameRuleOK(req)
           /\ (resp.status = StatusOk /\ dbAvail)
                 => order[Len(order)].custom_name = Trimmed(req.custom_name)

\* a name of 26 raw characters, 24 after trimming, was accepted and stored
C6_Witness ==
    /\ Accepted
    /\ dbAvail
    /\ Len(req.custom_name) = 26
    /\ Len(order[Len(order)].custom_name) = 24

\* C7: with the other fields valid an order is accepted exactly when the
\* quantity is in 1..10, and otherwise rejected with the quantity reason.
C7_QuantityRule ==
    (Ordered /\ NameRuleOK(req) /\ EmailRuleOK(req) /\ AddressRuleOK(req))
        => /\ resp.status = StatusOk <=> req.quantity \in 1..10
           /\ req.quantity \notin 1..10
                 => (resp.status = 400 /\ resp.detail = "Quantity must be between 1 and 10.")

\* quantity 0 was rejected with every other field valid
C7_Witness ==
    /\ Ordered
    /\ NameRuleOK(req) /\ EmailRuleOK(req) /\ AddressRuleOK(req)
    /\ req.quantity = 0
    /\ resp.status = 400

\* C8: an order with an invalid email is never answered with success and
\* never inserts an order record, whatever the other fields and the store.
C8_InvalidEmailRejected ==
    [][(resp'.op = "create_order" /\ ~EmailRuleOK(req'))
          => (resp'.status # StatusOk /\ resp'.order_id = "" /\ order' = order)]_vars

\* an order valid but for its email was refused
C8_Witness ==
    /\ Ordered
    /\ ~EmailRuleOK(req)
    /\ NameRuleOK(req) /\ QuantityRuleOK(req) /\ AddressRuleOK(req)
    /\ resp.status # StatusOk

\* every stored order is priced from its own fields and within the limits
OrderRecordsSound ==
    \A i \in 1..Len(order) :
        LET o == order[i]
        IN  /\ o.total_usd = Round2(o.unit_price_usd * o.quantity + 4000 + 6990)
            /\ o.quantity \in 1..10
            /\ Len(o.custom_name) \in 1..24
            /\ Trimmed(o.custom_name) = o.custom_name

\* C9 as stated: every order record is sound, every successful submission
\* adds exactly one order record and a rejected one adds none.
C9_EverySuccessAddsRecord ==
    /\ []OrderRecordsSound
    /\ [][resp'.op = "create_order"
            => IF resp'.status = StatusOk
               THEN Len(order') = Len(order) + 1 /\ SubSeq(order', 1, Len(order)) = order
               ELSE order' = order]_vars

\* C9 amended: every order record is sound; a successful submission adds
\* exactly one order record when the store is available and none when it is
\* not; a rejected one adds none.
C9_SuccessAddsRecordWhenStored ==
    /\ []OrderRecordsSound
    /\ [][resp'.op = "create_order"
            => IF resp'.status = StatusOk /\ dbAvail
               THEN Len(order') = Len(order) + 1 /\ SubSeq(order', 1, Len(order)) = order
               ELSE order' = order]_vars

\* an order of ten was accepted and is the newest record of the store
C9_Witness ==
    /\ Accepted
    /\ dbAvail
    /\ Len(order) >= 1
    /\ order[Len(order)].quantity = 10
    /\ resp.order_id = inserted_id(order)

\* C10: when the startup routines running together against an empty store
\* are all done, at most one product record bears the fixed name.
C10_ConcurrentSeedAtMostOne ==
    (\A s \in Seeders : pc[s] = "done") => MJCount(figurine) <= 1

====
